---- MODULE Spec2Model ----
(***************************************************************************)
(* Model of the real-time audio pipeline (audio_pipeline/audio_io.py,      *)
(* class AudioIO) and of the utterance segmenter                           *)
(* (language_translation.py, LanguageTranslationManager.real_time_translate)*)
(*                                                                         *)
(* Spec     : AudioIO - the caller thread (start/stop/add_processor/       *)
(*            remove_processor), the two PyAudio callback threads and the  *)
(*            worker threads running _process_audio.                       *)
(* SpecLive : Spec without the playback callback, with the fairness of the *)
(*            join in stop() and of the worker's steps.                    *)
(* SpecFlow : start/stop sessions of one AudioIO with both callbacks.       *)
(* SpecStartFail: SpecFlow with start() calls whose output stream fails.    *)
(* SpecCancel: start/stop sessions with the workers scheduled and every    *)
(*            processor call returning.                                    *)
(* SpecReject: a client whose submissions may carry invalid audio data.     *)
(* SpecSubmitOnly: a client that only submits previews, workers scheduled.  *)
(* SpecRaise: one AudioIO session with a raising processor in the chain.   *)
(* SpecChain: one AudioIO session with a processor chain that is mutated   *)
(*            while the worker iterates over it, frames of different       *)
(*            content, and a record of what was done to every frame.       *)
(* SpecOrder: the same with the chain built before start().                *)
(* SpecResize: the same with processors that change the frame length.      *)
(* SpecE2E  : the same with the chain [gain] and nothing but the capture   *)
(*            callback and the worker running.                             *)
(* SpecPlay : the same with the chain left empty, and with the value of    *)
(*            every playback callback observed.                            *)
(* SpecSeg  : real_time_translate threaded through successive calls with   *)
(*            one context.                                                 *)
(* SpecJob  : RealtimePreviewProcessor (realtime_preview.py) - clients     *)
(*            calling submit_preview_request, start, stop and              *)
(*            get_job_status concurrently, the worker threads running      *)
(*            _process_loop, and the clock the job ids are made from.      *)
(* SpecWorker: SpecJob with one client calling submit_preview_request and  *)
(*            stop in turn.                                                *)
(* SpecAP   : AudioProcessor (audio_processor.py) - start/stop and the     *)
(*            threads running _processing_loop on hosts with and without   *)
(*            audio devices (audio_routing.py resolves the devices).       *)
(***************************************************************************)
EXTENDS Integers, Sequences, FiniteSets, TLC

(***************************************************************************)
(* Bounds of the model.                                                    *)
(***************************************************************************)
\* capacity of input_queue and of output_queue; the code constructs both
\* with queue.Queue(maxsize=100) (audio_io.py:22-23), the model scales it down
maxsize == 1
\* frames the capture callback delivers in one behaviour: enough to fill
\* input_queue and lose a frame there, and to fill output_queue and lose one
\* there as well
MaxFrames == maxsize + 2
\* threading.Thread objects start() creates in one behaviour
MaxThreads == 2

\* start() calls whose output stream fails to open
MaxFailedStarts == 1
\* length of the processor list
MaxChain == 1
\* length of the processor list in SpecChain: one more, so that a processor
\* follows another one in the list
MaxChainLen == MaxChain + 1
\* frames captured in SpecChain, SpecOrder and SpecPlay: a frame and the one
\* after it
MaxChainFrames == 2
\* frames captured in SpecE2E: as many as a queue holds, and two that find
\* it full
MaxE2EFrames == maxsize + 2
\* threading.Thread objects AudioProcessor.start() creates in one behaviour
MaxApThreads == 2
\* chunks the mock loop processes in one behaviour
MaxMockChunks == 2
\* capacity of preview_queue; the code constructs it with Queue(maxsize=10)
\* (realtime_preview.py:34), the model scales it down
pvMaxsize == 1
\* threads that call into RealtimePreviewProcessor concurrently
NClients == 2
\* threading.Thread objects RealtimePreviewProcessor.start() creates
MaxPvThreads == 2
\* submit_preview_request calls with valid audio data in one behaviour
MaxSubmits == 2
\* the last value of the clock
MaxClock == 2
\* chunks fed to real_time_translate in one behaviour: two utterances, each
\* ended by SilenceThreshold silent chunks, and one chunk more
MaxCalls == 23
\* voice-active chunks among them
MaxSpeech == 3

VARIABLES
    \* ---- AudioIO fields (audio_io.py:18-30)
    is_running,         \* self.is_running
    input_stream,       \* self.input_stream : "None" | "open" | "closed"
    output_stream,      \* self.output_stream: "None" | "open" | "closed"
    input_queue,        \* self.input_queue  : sequence of frames
    output_queue,       \* self.output_queue : sequence of frames
    processing_thread,  \* self.processing_thread: 0 (None) or index in threads
    processors,         \* self.processors: sequence of processor names
    \* ---- environment of AudioIO
    threads,            \* every Thread object created so far, in creation order
    openIn,             \* PyAudio input streams currently open (callback live)
    openOut,            \* PyAudio output streams currently open
    callerpc,           \* position of the thread that calls start()/stop()
    \* ---- observation of AudioIO
    captured,           \* frames handed to _input_callback so far
    lastDelivered,      \* the last frame _output_callback returned (silence
                        \* excluded) and the session it was returned in
    dropped,            \* "queue full, dropping frame" warnings: [in, out]
    lastCall,           \* outcome of the last start()/stop() call
    \* ---- the utterance segmenter (language_translation.py:390-473)
    context,            \* the context dict threaded through the calls
    response,           \* the dict the last real_time_translate call returned
    collabCalls,        \* the buffers handed to translate_and_preserve_identity
    \* ---- observation of the chunk stream fed to the segmenter
    nCalls,             \* chunks fed so far
    nSpeech,            \* voice-active chunks fed so far
    silRun,             \* consecutive silent chunks at the end of the stream
    longestRun,         \* longest run of consecutive silent chunks so far
    voiced,             \* the voice-active chunks fed since the last utterance
                        \* was due, concatenated in order
    dueUtterances,      \* the utterances due so far: each the voice-active
                        \* chunks that were followed by SilenceThreshold
                        \* consecutive silent chunks
    \* ---- observation of the frames in SpecChain
    inLog,              \* in_data of every _input_callback call, in order
    cur,                \* the frame the worker is iterating for: the
                        \* processors applied so far, those registered ever
                        \* since the for loop began, and whether the list
                        \* was mutated since
    done,               \* the last frame the worker has finished and what
                        \* was done to it
    ret,                \* what the last _output_callback call returned
    \* ---- AudioProcessor fields (audio_processor.py:27-30)
    ap_running,         \* self.running
    ap_thread,          \* self.thread: 0 (None) or index in apThreads
    \* ---- environment and observation of AudioProcessor
    apThreads,          \* every Thread object AudioProcessor.start() created
    apcallerpc,         \* position of the thread that calls start()/stop()
    mockChunks,         \* chunks the mock loop has processed
    stopCalled,         \* stop() has been called on a running AudioProcessor
    \* ---- RealtimePreviewProcessor fields (realtime_preview.py:33-40)
    pv_running,         \* self.running
    pv_thread,          \* self.thread: 0 (None) or index in pvThreads
    preview_queue,      \* self.preview_queue: sequence of requests
    current_jobs,       \* self.current_jobs: job_id -> job record
    \* ---- environment of RealtimePreviewProcessor
    pvThreads,          \* every Thread object start() created
    clients,            \* the threads that call submit_preview_request,
                        \* start, stop and get_job_status: position and locals
    now,                \* datetime.now(), in microseconds
    \* ---- observation of RealtimePreviewProcessor
    nSubmits,           \* submit_preview_request calls that created a record
    issued,             \* the job ids those calls computed
    accepted,           \* the calls that returned a job_id: [job_id, serial]
    lastQuery           \* the last get_job_status call and what it returned

ioVars == << is_running, input_stream, output_stream, input_queue, output_queue,
             processing_thread, processors, threads, openIn, openOut, callerpc,
             captured, lastDelivered, dropped, lastCall >>

segVars == << context, response, collabCalls, nCalls, nSpeech, silRun,
              longestRun, voiced, dueUtterances >>

chainVars == << inLog, cur, done, ret >>

apVars == << ap_running, ap_thread, apThreads, apcallerpc, mockChunks,
            stopCalled >>

jobVars == << pv_running, pv_thread, preview_queue, current_jobs, pvThreads,
             clients, now, nSubmits, issued, accepted, lastQuery >>

vars == << ioVars, segVars, chainVars, apVars, jobVars >>

\* what the actions of one component leave unchanged
otherThanIO == << segVars, chainVars, apVars, jobVars >>
otherThanSeg == << ioVars, chainVars, apVars, jobVars >>
otherThanChain == << segVars, apVars, jobVars >>
otherThanAP == << ioVars, segVars, chainVars, jobVars >>
otherThanJob == << ioVars, segVars, chainVars, apVars >>

(***************************************************************************)
(* Frames and processors.                                                  *)
(***************************************************************************)
\* the bytes PyAudio hands to the capture callback: one int16 sample
InData == << 1 >>

\* a captured frame: its capture number, the number of start() calls that had
\* succeeded when it was captured, and its samples
Frame(n, s, d) == [id |-> n, sess |-> s, data |-> d]

NoFrame == [id |-> 0, sess |-> 0, data |-> << >>]

\* lastDelivered before the playback callback has returned any frame
NotDelivered == [id |-> 0, sess |-> 0, during |-> 0]

ProcessorNames == {"gain"}

\* x * 0.5 followed by astype(np.int16): truncation toward zero
Halve(x) == IF x >= 0 THEN x \div 2 ELSE -((-x) \div 2)

\* a value stored as np.int16: two's complement wrap-around
Int16(x) == ((x + 32768) % 65536) - 32768

\* a value stored in 8 bits
Int8(x) == ((x + 128) % 256) - 128

\* the processors registered in SpecChain: two that do not commute and one
\* that raises an exception
ChainProcessors == {"invert", "offset", "raise"}

\* processors that return a frame of another length: one sample fewer, one
\* sample (a zero) more
ResizingProcessors == {"trim", "pad"}

\* processor(audio_data) raises
Raises(p) == p = "raise"

\* a gain that leaves the samples as they are
CallIdentity(p, d) == d

\* processor(audio_data) for a registered processor that returns
CallProcessor(p, d) ==
    CASE p = "gain" -> [i \in 1..Len(d) |-> Halve(d[i])]
      [] p = "invert" -> [i \in 1..Len(d) |-> Int16(-d[i])]
      [] p = "offset" -> [i \in 1..Len(d) |-> Int16(d[i] + 1)]
      [] p = "trim" -> SubSeq(d, 1, Len(d) - 1)
      [] p = "pad" -> Append(d, 0)
      [] OTHER -> d

\* a conversion of the samples to 8 bits
astype_int8(d) == [i \in 1..Len(d) |-> Int8(d[i])]

\* audio_data.astype(np.int16).tobytes() (line 156)
astype_int16(d) == [i \in 1..Len(d) |-> Int16(d[i])]

\* a list iterator that walks the list from its end
ProcessorAtReversed(l, idx) == l[Len(l) + 1 - idx]

\* the element the list iterator of "for processor in self.processors"
\* yields at index idx (line 152)
ProcessorAt(l, idx) == l[idx]

\* a Thread object running _process_audio: its position in the loop
\* ("loop": at the test of line 143, "get": in input_queue.get, "iter": at the
\* head of the for loop, "call": inside a processor, "dead": ended), the
\* frame it holds (in_data / audio_data) and the list iterator's index
NewThread == [pc |-> "loop", frame |-> NoFrame, idx |-> 0]

DeadThread == [pc |-> "dead", frame |-> NoFrame, idx |-> 0]

ThreadIds == 1..Len(threads)

is_alive(t) == t \in ThreadIds /\ threads[t].pc # "dead"

\* a thread that an exception of a processor has ended
ThreadEndedByError == DeadThread

\* the thread after "except Exception" caught what a processor raised
\* (lines 167-168): the error is logged and the loop goes on
ThreadAfterError == NewThread

\* the threads that are executing the loop of _process_audio
LiveThreads == {t \in ThreadIds : threads[t].pc # "dead"}

(***************************************************************************)
(* queue.Queue operations used by the code.                                *)
(***************************************************************************)
\* a put that makes room by evicting the oldest frame
PutEvictOldest(q, x) ==
    IF Len(q) < maxsize THEN Append(q, x) ELSE Append(Tail(q), x)

\* a put that ignores maxsize
PutUnbounded(q, x) == Append(q, x)

\* a put that stores the item twice
PutTwice(q, x) == IF Len(q) < maxsize THEN Append(Append(q, x), x) ELSE q

\* q.put(x, block=False): the queue after the call (unchanged on queue.Full)
PutNoWait(q, x) == IF Len(q) < maxsize THEN Append(q, x) ELSE q

\* whether q.put(x, block=False) raises queue.Full
PutRaisesFull(q) == ~(Len(q) < maxsize)

\* _clear_queue(q): get(block=False) until q.empty()
RECURSIVE ClearQueue(_)
ClearQueue(q) == IF q = << >> THEN q ELSE ClearQueue(Tail(q))

(***************************************************************************)
(* Initial state: AudioIO.__init__                                         *)
(***************************************************************************)
InitIO ==
    /\ is_running = FALSE
    /\ input_stream = "None"
    /\ output_stream = "None"
    /\ input_queue = << >>
    /\ output_queue = << >>
    /\ processing_thread = 0
    /\ processors = << >>
    /\ threads = << >>
    /\ openIn = 0
    /\ openOut = 0
    /\ callerpc = "idle"
    /\ captured = 0
    /\ lastDelivered = NotDelivered
    /\ dropped = [in |-> 0, out |-> 0]
    /\ lastCall = "none"

\* AudioProcessor.__init__ (audio_processor.py:27-30)
InitAP ==
    /\ ap_running = FALSE
    /\ ap_thread = 0
    /\ apThreads = << >>
    /\ apcallerpc = "idle"
    /\ mockChunks = 0
    /\ stopCalled = FALSE

\* no request held
NoRequest == [job_id |-> 0, serial |-> 0, fails |-> "None"]

\* get_job_status has not been called
NoQuery == [job_id |-> 0, found |-> FALSE, record |-> NoRequest]

\* RealtimePreviewProcessor.__init__ (realtime_preview.py:33-40); no client
\* is inside a call
InitJob ==
    /\ pv_running = FALSE
    /\ pv_thread = 0
    /\ preview_queue = << >>
    /\ current_jobs = << >>
    /\ pvThreads = << >>
    /\ clients = [c \in 1..NClients |->
                     [pc |-> "idle", request |-> NoRequest, joins |-> 0,
                      error |-> "None"]]
    /\ now = 1
    /\ nSubmits = 0
    /\ issued = {}
    /\ accepted = {}
    /\ lastQuery = NoQuery

\* the worker holds no frame
NoCur == [applied |-> << >>, stayed |-> {}, mutated |-> FALSE]

\* _output_callback has not been called
NoReturn == [data |-> << >>, flag |-> "None", frame_count |-> 0]

\* the worker has finished no frame
NoneDone == [id |-> 0, data |-> << >>, applied |-> << >>, chain |-> << >>,
             stayed |-> {}, mutated |-> FALSE, raised |-> FALSE,
             out |-> "None"]

InitChain ==
    /\ inLog = << >>
    /\ cur = NoCur
    /\ done = NoneDone
    /\ ret = NoReturn

(***************************************************************************)
(* The utterance segmenter: LanguageTranslationManager.real_time_translate *)
(* (language_translation.py:390-473)                                       *)
(***************************************************************************)
\* the silence run that ends an utterance (line 434)
SilenceThreshold == 10

\* samples are in units of 0.1, so their squares are in units of 0.01, the
\* default energy threshold of _detect_speech (line 475)
threshold == 1

\* the chunks a caller feeds: silence, a chunk whose energy equals the
\* threshold, and two voice-active chunks of different length
Chunks == { << 0 >>, << 1 >>, << 2 >>, << 1, 2 >> }

RECURSIVE SumSquares(_)
SumSquares(d) == IF d = << >> THEN 0 ELSE d[1] * d[1] + SumSquares(Tail(d))

\* _detect_speech (lines 475-488): np.mean(np.square(chunk)) > threshold;
\* the mean of an empty chunk is nan, which is not greater than anything
detect_speech(chunk) ==
    /\ Len(chunk) > 0
    /\ SumSquares(chunk) > threshold * Len(chunk)

\* the empty context a caller passes to the first call ("not context" holds)
NoContext ==
    [empty |-> TRUE, buffer |-> 0, last_translation |-> "None",
     silence_frames |-> 0, is_speaking |-> FALSE, current_utterance |-> << >>,
     translations |-> << >>]

\* the context of lines 409-416; buffer is kept as its number of samples
\* (the code appends to it and never reads it)
FreshContext ==
    [empty |-> FALSE, buffer |-> 0, last_translation |-> "None",
     silence_frames |-> 0, is_speaking |-> FALSE, current_utterance |-> << >>,
     translations |-> << >>]

NoResponse == [has_translation |-> FALSE, translation |-> "None"]

\* what translate_and_preserve_identity returns for an utterance
\* (lines 280-330): a translation, or a dict with the key "error"
TranslationResults == {"translation", "error"}

\* lines 408-419: the context is created when empty, the chunk is appended
\* to context["buffer"]
WithChunk(c, chunk) ==
    LET c0 == IF c.empty THEN FreshContext ELSE c
    IN  [c0 EXCEPT !.buffer = @ + Len(chunk)]

\* a voice-active chunk that leaves the silence count as it is
OnSpeechNoReset(c, chunk) ==
    [c EXCEPT !.is_speaking = TRUE,
              !.current_utterance = @ \o chunk]

\* a voice-active chunk that is buffered without is_speaking being set
OnSpeechStaysIdle(c, chunk) ==
    [c EXCEPT !.silence_frames = 0,
              !.current_utterance = @ \o chunk]

\* lines 424-429: a voice-active chunk
OnSpeech(c, chunk) ==
    [c EXCEPT !.silence_frames = 0,
              !.is_speaking = TRUE,
              !.current_utterance = @ \o chunk]

\* a segmenter that finalizes one silent chunk early
FinalizesEarly(c) ==
    c.is_speaking /\ c.silence_frames >= SilenceThreshold - 1

\* line 434, evaluated after the increment of line 431
Finalizes(c) ==
    c.is_speaking /\ c.silence_frames >= SilenceThreshold

\* a silent chunk that is also appended to the utterance
OnSilenceKeepsChunk(c, chunk) ==
    [c EXCEPT !.silence_frames = @ + 1,
              !.current_utterance = IF c.is_speaking THEN @ \o chunk ELSE @]

\* a silent chunk that is appended to the utterance whatever the state
OnSilenceStartsUtterance(c, chunk) ==
    [c EXCEPT !.silence_frames = @ + 1,
              !.current_utterance = @ \o chunk]

\* line 431: a silent chunk
OnSilence(c, chunk) == [c EXCEPT !.silence_frames = @ + 1]

\* a finalization that keeps the utterance when the collaborator failed
FinalizedKeepsFailed(c, result) ==
    [c EXCEPT !.is_speaking = FALSE,
              !.last_translation = result,
              !.translations = Append(@, result),
              !.current_utterance = IF result = "error" THEN @ ELSE << >>]

\* a finalization that logs the utterance twice
FinalizedAppendsTwice(c, result) ==
    [c EXCEPT !.is_speaking = FALSE,
              !.last_translation = result,
              !.translations = Append(Append(@, result), result),
              !.current_utterance = << >>]

\* lines 435 and 447-451: the context after the collaborator returned result
Finalized(c, result) ==
    [c EXCEPT !.is_speaking = FALSE,
              !.last_translation = result,
              !.translations = Append(@, result),
              !.current_utterance = << >>]

\* real_time_translate(audio_chunk, context): the context and the response
\* it returns, and the buffer it hands to the collaborator (None when it
\* does not call it); result is what the collaborator returns
real_time_translate(chunk, c, result) ==
    LET c1 == WithChunk(c, chunk)
    IN  IF detect_speech(chunk)
          THEN [context |-> OnSpeech(c1, chunk),
                response |-> [has_translation |-> FALSE, translation |-> "None"],
                handed |-> << >>, called |-> FALSE]
          ELSE LET c2 == OnSilence(c1, chunk)
               IN  IF Finalizes(c2)
                     THEN IF Len(c2.current_utterance) > 0
                            THEN [context |-> Finalized(c2, result),
                                  response |-> [has_translation |-> TRUE,
                                                translation |-> result],
                                  handed |-> c2.current_utterance,
                                  called |-> TRUE]
                            ELSE [context |-> [c2 EXCEPT !.is_speaking = FALSE],
                                  response |-> [has_translation |-> FALSE,
                                                translation |-> "None"],
                                  handed |-> << >>, called |-> FALSE]
                     ELSE [context |-> c2,
                           response |-> [has_translation |-> FALSE,
                                         translation |-> "None"],
                           handed |-> << >>, called |-> FALSE]

\* the caller starts with an empty context and has fed no chunk
InitSeg ==
    /\ context = NoContext
    /\ response = NoResponse
    /\ collabCalls = << >>
    /\ nCalls = 0
    /\ nSpeech = 0
    /\ silRun = 0
    /\ longestRun = 0
    /\ voiced = << >>
    /\ dueUtterances = << >>

Init == InitIO /\ InitSeg /\ InitChain /\ InitAP /\ InitJob

\* the observation of the stream after one more chunk: the silence run, the
\* voice-active chunks not yet part of a due utterance, and the utterances
\* that became due
Observe(chunk) ==
    IF detect_speech(chunk)
      THEN /\ nSpeech' = nSpeech + 1
           /\ silRun' = 0
           /\ longestRun' = longestRun
           /\ voiced' = voiced \o chunk
           /\ dueUtterances' = dueUtterances
      ELSE /\ nSpeech' = nSpeech
           /\ silRun' = silRun + 1
           /\ longestRun' = IF silRun + 1 > longestRun THEN silRun + 1
                                                       ELSE longestRun
           /\ IF silRun + 1 = SilenceThreshold /\ voiced # << >>
                THEN /\ dueUtterances' = Append(dueUtterances, voiced)
                     /\ voiced' = << >>
                ELSE UNCHANGED << dueUtterances, voiced >>

\* the caller feeds one chunk and keeps the returned context for the next call
Feed(chunk, result) ==
    /\ nCalls < MaxCalls
    /\ detect_speech(chunk) => nSpeech < MaxSpeech
    /\ LET r == real_time_translate(chunk, context, result)
       IN  /\ context' = r.context
           /\ response' = r.response
           /\ collabCalls' = IF r.called THEN Append(collabCalls, r.handed)
                                         ELSE collabCalls
           \* the collaborator's answer matters only when it is called
           /\ r.called \/ result = "translation"
    /\ nCalls' = nCalls + 1
    /\ Observe(chunk)
    /\ UNCHANGED otherThanSeg

NextSeg == \E chunk \in Chunks, result \in TranslationResults : Feed(chunk, result)

SpecSeg == Init /\ [][NextSeg]_vars

(***************************************************************************)
(* AudioIO.start (audio_io.py:32-72)                                       *)
(***************************************************************************)
\* start() while is_running: logs a warning and returns (lines 40-42)
StartAlreadyRunning ==
    /\ callerpc = "idle"
    /\ is_running
    /\ lastCall' = "already_running"
    /\ UNCHANGED otherThanIO
    /\ UNCHANGED << is_running, input_stream, output_stream, input_queue,
                    output_queue, processing_thread, processors, threads,
                    openIn, openOut, callerpc, captured, lastDelivered, dropped >>

\* start() that opens both streams, sets is_running and starts the worker
\* thread (lines 44-72); both pa.open() calls succeed
StartOk ==
    /\ callerpc = "idle"
    /\ ~is_running
    /\ Len(threads) < MaxThreads
    /\ input_stream' = "open"
    /\ openIn' = openIn + 1
    /\ output_stream' = "open"
    /\ openOut' = openOut + 1
    /\ is_running' = TRUE
    /\ threads' = Append(threads, NewThread)
    /\ processing_thread' = Len(threads) + 1
    /\ lastCall' = "started"
    /\ UNCHANGED otherThanIO
    /\ UNCHANGED << input_queue, output_queue, processors, callerpc, captured,
                    lastDelivered, dropped >>

\* start() whose first pa.open() succeeds (lines 45-53) and whose second
\* raises (lines 56-64): the exception leaves start(), which has no handler;
\* input_stream is assigned and the stream runs its callback, the lines
\* from 66 on are not reached
StartOutputFails ==
    /\ callerpc = "idle"
    /\ ~is_running
    /\ openIn < MaxFailedStarts
    /\ input_stream' = "open"
    /\ openIn' = openIn + 1
    /\ lastCall' = "start_failed"
    /\ UNCHANGED otherThanIO
    /\ UNCHANGED << is_running, output_stream, input_queue, output_queue,
                    processing_thread, processors, threads, openOut, callerpc,
                    captured, lastDelivered, dropped >>

(***************************************************************************)
(* AudioIO.stop (audio_io.py:74-99)                                        *)
(***************************************************************************)
\* stop() while not is_running: logs a warning and returns (lines 76-78)
StopNotRunning ==
    /\ callerpc = "idle"
    /\ ~is_running
    /\ lastCall' = "not_running"
    /\ UNCHANGED otherThanIO
    /\ UNCHANGED << is_running, input_stream, output_stream, input_queue,
                    output_queue, processing_thread, processors, threads,
                    openIn, openOut, callerpc, captured, lastDelivered, dropped >>

\* stop() up to the join: clears the flag, closes the two streams, clears
\* the two queues and tests processing_thread.is_alive() (lines 80-96)
StopBegin ==
    /\ callerpc = "idle"
    /\ is_running
    /\ is_running' = FALSE
    /\ input_stream' = IF input_stream = "None" THEN "None" ELSE "closed"
    /\ openIn' = IF input_stream = "open" THEN openIn - 1 ELSE openIn
    /\ output_stream' = IF output_stream = "None" THEN "None" ELSE "closed"
    /\ openOut' = IF output_stream = "open" THEN openOut - 1 ELSE openOut
    /\ input_queue' = ClearQueue(input_queue)
    /\ output_queue' = ClearQueue(output_queue)
    /\ IF processing_thread # 0 /\ is_alive(processing_thread)
         THEN callerpc' = "joining" /\ lastCall' = "stopping"
         ELSE callerpc' = "idle" /\ lastCall' = "stopped"
    /\ UNCHANGED otherThanIO
    /\ UNCHANGED << processing_thread, processors, threads, captured,
                    lastDelivered, dropped >>

\* processing_thread.join(timeout=1.0) returns because the thread has ended
StopJoined ==
    /\ callerpc = "joining"
    /\ ~is_alive(processing_thread)
    /\ callerpc' = "idle"
    /\ lastCall' = "stopped"
    /\ UNCHANGED otherThanIO
    /\ UNCHANGED << is_running, input_stream, output_stream, input_queue,
                    output_queue, processing_thread, processors, threads,
                    openIn, openOut, captured, lastDelivered, dropped >>

\* a join() without timeout: it returns only when the thread has ended
JoinWithoutTimeout ==
    /\ callerpc = "joining"
    /\ ~is_alive(processing_thread)
    /\ callerpc' = "idle"
    /\ lastCall' = "stopped_timeout"
    /\ UNCHANGED otherThanIO
    /\ UNCHANGED << is_running, input_stream, output_stream, input_queue,
                    output_queue, processing_thread, processors, threads,
                    openIn, openOut, captured, lastDelivered, dropped >>

\* processing_thread.join(timeout=1.0) returns because the second has passed:
\* every wait of the worker is bounded by 0.1 s except a processor call, so
\* the thread is inside a processor call
StopJoinTimeout ==
    /\ callerpc = "joining"
    /\ is_alive(processing_thread)
    /\ threads[processing_thread].pc = "call"
    /\ callerpc' = "idle"
    /\ lastCall' = "stopped_timeout"
    /\ UNCHANGED otherThanIO
    /\ UNCHANGED << is_running, input_stream, output_stream, input_queue,
                    output_queue, processing_thread, processors, threads,
                    openIn, openOut, captured, lastDelivered, dropped >>

(***************************************************************************)
(* AudioIO.add_processor / remove_processor (audio_io.py:101-121)          *)
(***************************************************************************)
\* add_processor(p): self.processors.append(p), the list mutated in place
add_processor(p) ==
    /\ callerpc = "idle"
    /\ processors' = Append(processors, p)
    /\ UNCHANGED << is_running, input_stream, output_stream, input_queue,
                    output_queue, processing_thread, threads, openIn, openOut,
                    callerpc, captured, lastDelivered, dropped, lastCall >>

AddProcessor(p) ==
    /\ Len(processors) < MaxChain
    /\ add_processor(p)
    /\ UNCHANGED otherThanIO

\* list.remove(x): the list without the first element equal to x
ListRemove(l, x) ==
    LET k == CHOOSE i \in 1..Len(l) :
                 l[i] = x /\ \A j \in 1..(i - 1) : l[j] # x
    IN  SubSeq(l, 1, k - 1) \o SubSeq(l, k + 1, Len(l))

\* remove_processor(p) for a registered p: self.processors.remove(p), the
\* list mutated in place
remove_processor(p) ==
    /\ callerpc = "idle"
    /\ \E i \in 1..Len(processors) : processors[i] = p
    /\ processors' = ListRemove(processors, p)
    /\ UNCHANGED << is_running, input_stream, output_stream, input_queue,
                    output_queue, processing_thread, threads, openIn, openOut,
                    callerpc, captured, lastDelivered, dropped, lastCall >>

RemoveProcessor(p) ==
    /\ remove_processor(p)
    /\ UNCHANGED otherThanIO

(***************************************************************************)
(* The PyAudio callbacks (audio_io.py:123-139)                             *)
(***************************************************************************)
\* _input_callback: input_queue.put(in_data, block=False), queue.Full caught
input_callback(in_data) ==
    /\ openIn > 0
    /\ captured' = captured + 1
    /\ input_queue' =
           PutNoWait(input_queue, Frame(captured + 1, Len(threads), in_data))
    /\ dropped' = IF PutRaisesFull(input_queue)
                    THEN [dropped EXCEPT !.in = @ + 1] ELSE dropped
    /\ UNCHANGED << is_running, input_stream, output_stream, output_queue,
                    processing_thread, processors, threads, openIn, openOut,
                    callerpc, lastDelivered, lastCall >>

InputCallback ==
    /\ captured < MaxFrames
    /\ input_callback(InData)
    /\ UNCHANGED otherThanIO

\* _output_callback: output_queue.get(block=False); on queue.Empty a frame of
\* zero bytes is returned and nothing changes
output_callback ==
    /\ openOut > 0
    /\ IF output_queue # << >>
         THEN /\ lastDelivered' = [id |-> Head(output_queue).id,
                                    sess |-> Head(output_queue).sess,
                                    during |-> Len(threads)]
              /\ output_queue' = Tail(output_queue)
         ELSE UNCHANGED << lastDelivered, output_queue >>
    /\ UNCHANGED << is_running, input_stream, output_stream, input_queue,
                    processing_thread, processors, threads, openIn, openOut,
                    callerpc, captured, dropped, lastCall >>

OutputCallback ==
    /\ output_callback
    /\ UNCHANGED otherThanIO

(***************************************************************************)
(* AudioIO._process_audio, run by each worker thread (audio_io.py:141-168) *)
(***************************************************************************)
\* while self.is_running (line 143); the thread ends when the flag is clear
WorkerLoop(t) ==
    /\ t \in ThreadIds
    /\ threads[t].pc = "loop"
    /\ threads' = [threads EXCEPT ![t] =
                       IF is_running THEN [@ EXCEPT !.pc = "get"]
                                     ELSE DeadThread]
    /\ UNCHANGED otherThanIO
    /\ UNCHANGED << is_running, input_stream, output_stream, input_queue,
                    output_queue, processing_thread, processors, openIn,
                    openOut, callerpc, captured, lastDelivered, dropped, lastCall >>

\* a get without timeout: it returns only when a frame is there
WorkerGetBlocks(t) ==
    /\ t \in ThreadIds
    /\ threads[t].pc = "get"
    /\ input_queue # << >>
    /\ threads' = [threads EXCEPT ![t] =
           [pc |-> "iter", frame |-> Head(input_queue), idx |-> 1]]
    /\ input_queue' = Tail(input_queue)
    /\ UNCHANGED otherThanIO
    /\ UNCHANGED << is_running, input_stream, output_stream, output_queue,
                    processing_thread, processors, openIn, openOut, callerpc,
                    captured, lastDelivered, dropped, lastCall >>

\* input_queue.get(block=True, timeout=0.1) and np.frombuffer (lines 146-149);
\* on queue.Empty the thread sleeps 1 ms and goes back to the loop test
WorkerGet(t) ==
    /\ t \in ThreadIds
    /\ threads[t].pc = "get"
    /\ IF input_queue # << >>
         THEN /\ threads' = [threads EXCEPT ![t] =
                    [pc |-> "iter", frame |-> Head(input_queue), idx |-> 1]]
              /\ input_queue' = Tail(input_queue)
         ELSE /\ threads' = [threads EXCEPT ![t].pc = "loop"]
              /\ UNCHANGED input_queue
    /\ UNCHANGED otherThanIO
    /\ UNCHANGED << is_running, input_stream, output_stream, output_queue,
                    processing_thread, processors, openIn, openOut, callerpc,
                    captured, lastDelivered, dropped, lastCall >>

\* the thread, holding audio_data, at the list iterator of
\* "for processor in self.processors" (line 152): while idx is inside the
\* list it enters processor = self.processors[idx], whose result becomes
\* audio_data (line 153), or whose exception is caught and logged at lines
\* 167-168, after which the thread is back at the loop test; when the list
\* is exhausted the frame is converted back and put on output_queue with
\* block=False, queue.Full caught (lines 156-162)
IterNext(t) ==
    IF threads[t].idx <= Len(processors)
      THEN /\ threads' = [threads EXCEPT ![t] =
                 IF Raises(ProcessorAt(processors, threads[t].idx))
                   THEN ThreadAfterError
                   ELSE [pc |-> "call",
                         frame |-> [threads[t].frame EXCEPT !.data =
                             CallProcessor(
                                 ProcessorAt(processors, threads[t].idx), @)],
                         idx |-> threads[t].idx + 1]]
           /\ UNCHANGED << output_queue, dropped >>
      ELSE /\ output_queue' =
                  PutNoWait(output_queue,
                            [threads[t].frame EXCEPT !.data = astype_int16(@)])
           /\ dropped' = IF PutRaisesFull(output_queue)
                           THEN [dropped EXCEPT !.out = @ + 1] ELSE dropped
           /\ threads' = [threads EXCEPT ![t] = NewThread]

\* the first pass through the for statement after the get
process_audio_iter(t) ==
    /\ t \in ThreadIds
    /\ threads[t].pc = "iter"
    /\ IterNext(t)
    /\ UNCHANGED << is_running, input_stream, output_stream, input_queue,
                    processing_thread, processors, openIn, openOut, callerpc,
                    captured, lastDelivered, lastCall >>

WorkerIter(t) ==
    /\ process_audio_iter(t)
    /\ UNCHANGED otherThanIO

\* the processor call returns and the for statement asks the iterator for
\* the next processor
process_audio_call(t) ==
    /\ t \in ThreadIds
    /\ threads[t].pc = "call"
    /\ IterNext(t)
    /\ UNCHANGED << is_running, input_stream, output_stream, input_queue,
                    processing_thread, processors, openIn, openOut, callerpc,
                    captured, lastDelivered, lastCall >>

WorkerCall(t) ==
    /\ process_audio_call(t)
    /\ UNCHANGED otherThanIO

\* the frames a worker thread holds between the get of line 146 and the put
\* of line 160
HeldBy(t) ==
    IF threads[t].pc \in {"iter", "call"} THEN << threads[t].frame >> ELSE << >>

RECURSIVE HeldFrames(_)
HeldFrames(n) == IF n = 0 THEN << >> ELSE HeldFrames(n - 1) \o HeldBy(n)

\* every frame that is on input_queue, in a worker's hands or on
\* output_queue, and the set of their ids
InPipeline == input_queue \o HeldFrames(Len(threads)) \o output_queue

PipelineIds == {InPipeline[i].id : i \in 1..Len(InPipeline)}

(***************************************************************************)
(* Specification of AudioIO                                                *)
(***************************************************************************)
Next ==
    \/ StartAlreadyRunning
    \/ StartOk
    \/ StopNotRunning
    \/ StopBegin
    \/ StopJoined
    \/ StopJoinTimeout
    \/ \E p \in ProcessorNames : AddProcessor(p)
    \/ \E p \in ProcessorNames : RemoveProcessor(p)
    \/ InputCallback
    \/ OutputCallback
    \/ \E t \in 1..MaxThreads : WorkerLoop(t)
    \/ \E t \in 1..MaxThreads : WorkerGet(t)
    \/ \E t \in 1..MaxThreads : WorkerIter(t)
    \/ \E t \in 1..MaxThreads : WorkerCall(t)

Spec == Init /\ [][Next]_vars

\* the steps stop() can wait for or race with: every action of Next but the
\* playback callback, which only takes frames from output_queue, where the
\* worker's put_nowait never waits
NextLive ==
    \/ StartAlreadyRunning
    \/ StartOk
    \/ StopNotRunning
    \/ StopBegin
    \/ StopJoined
    \/ StopJoinTimeout
    \/ \E p \in ProcessorNames : AddProcessor(p)
    \/ \E p \in ProcessorNames : RemoveProcessor(p)
    \/ InputCallback
    \/ \E t \in 1..MaxThreads : WorkerLoop(t)
    \/ \E t \in 1..MaxThreads : WorkerGet(t)
    \/ \E t \in 1..MaxThreads : WorkerIter(t)
    \/ \E t \in 1..MaxThreads : WorkerCall(t)

\* the specification with the scheduling the code has: a join() that can
\* return does return, and the worker threads keep running (some thread that
\* can take a step outside a processor call takes one); a processor call
\* (WorkerCall) may take any time or never return
SpecLive ==
    /\ Init /\ [][NextLive]_vars
    /\ WF_vars(StopJoined)
    /\ WF_vars(StopJoinTimeout)
    /\ WF_vars(\E t \in 1..MaxThreads :
                   WorkerLoop(t) \/ WorkerGet(t) \/ WorkerIter(t))

\* sessions of one AudioIO whose processor list is set up before the first
\* start()
NextCancel ==
    \/ StartOk
    \/ StopBegin
    \/ StopJoined
    \/ StopJoinTimeout
    \/ \E p \in ProcessorNames :
           processors = << >> /\ threads = << >> /\ AddProcessor(p)
    \/ InputCallback
    \/ \E t \in 1..MaxThreads : WorkerLoop(t)
    \/ \E t \in 1..MaxThreads : WorkerGet(t)
    \/ \E t \in 1..MaxThreads : WorkerIter(t)
    \/ \E t \in 1..MaxThreads : WorkerCall(t)

\* these sessions with the playback callback
NextFlow ==
    \/ NextCancel
    \/ OutputCallback

SpecFlow == Init /\ [][NextFlow]_vars

\* these sessions with start() calls that fail at the output stream
NextStartFail ==
    \/ NextFlow
    \/ StartOutputFails

SpecStartFail == Init /\ [][NextStartFail]_vars

\* these sessions with the worker threads scheduled and every processor call
\* returning
SpecCancel ==
    /\ Init /\ [][NextCancel]_vars
    /\ WF_vars(\E t \in 1..MaxThreads :
                  WorkerLoop(t) \/ WorkerGet(t) \/ WorkerIter(t) \/ WorkerCall(t))

(***************************************************************************)
(* SpecChain: one session of AudioIO, every frame observed                 *)
(***************************************************************************)
\* the in_data PyAudio hands to _input_callback: frames of one and of two
\* samples
CaptureData == { << 300 >>, << -2, 5 >> }

\* the frame_count PyAudio asks _output_callback for
FrameCounts == {1, 2}

\* config.py: SETTINGS["CHANNELS"]
CHANNELS == 1

\* a frame that holds no sample
NoSilence(frame_count) == << >>

\* bytes(frame_count * CHANNELS * 2) (line 139): frame_count * CHANNELS
\* samples of two zero bytes each
SilenceFrame(frame_count) == [i \in 1..(frame_count * CHANNELS) |-> 0]

\* what _output_callback returns (lines 135-139)
output_callback_return(frame_count) ==
    [data |-> IF output_queue # << >> THEN Head(output_queue).data
                                      ELSE SilenceFrame(frame_count),
     flag |-> "paContinue",
     frame_count |-> frame_count]

\* _input_callback with the frame it was handed recorded
chain_capture(in_data) ==
    /\ input_callback(in_data)
    /\ inLog' = Append(inLog, in_data)
    /\ UNCHANGED << cur, done, ret >>
    /\ UNCHANGED otherThanChain

ChainCapture(in_data) ==
    /\ captured < MaxChainFrames
    /\ chain_capture(in_data)

E2ECapture(in_data) ==
    /\ captured < MaxE2EFrames
    /\ chain_capture(in_data)

ChainPlayback(frame_count) ==
    /\ output_callback
    /\ ret' = output_callback_return(frame_count)
    /\ UNCHANGED << inLog, cur, done >>
    /\ UNCHANGED otherThanChain

Range(l) == {l[i] : i \in 1..Len(l)}

\* the processor list takes a new value while the worker is inside the for
\* loop
ChainMutated ==
    cur' = IF \E t \in ThreadIds : threads[t].pc = "call"
             THEN [cur EXCEPT !.stayed = @ \cap Range(processors'),
                              !.mutated = TRUE]
             ELSE cur

ChainAdd(p) ==
    /\ Len(processors) < MaxChainLen
    /\ add_processor(p)
    /\ ChainMutated
    /\ UNCHANGED << inLog, done, ret >>
    /\ UNCHANGED otherThanChain

ChainRemove(p) ==
    /\ remove_processor(p)
    /\ ChainMutated
    /\ UNCHANGED << inLog, done, ret >>
    /\ UNCHANGED otherThanChain

\* the record of the step IterNext(t) takes; base is what was recorded for
\* the frame before the step
ChainObserve(t, base) ==
    LET fr == threads[t].frame
        idx == threads[t].idx
    IN  IF idx <= Len(processors)
          THEN IF Raises(ProcessorAt(processors, idx))
                 THEN /\ done' = [id |-> fr.id, data |-> fr.data,
                                   applied |-> base.applied,
                                   chain |-> processors,
                                   stayed |-> base.stayed,
                                   mutated |-> base.mutated,
                                   raised |-> TRUE, out |-> "lost"]
                      /\ cur' = NoCur
                 ELSE /\ cur' = [base EXCEPT !.applied =
                                    Append(@, ProcessorAt(processors, idx))]
                      /\ UNCHANGED done
          ELSE /\ done' = [id |-> fr.id, data |-> astype_int16(fr.data),
                            applied |-> base.applied,
                            chain |-> processors,
                            stayed |-> base.stayed,
                            mutated |-> base.mutated,
                            raised |-> FALSE,
                            out |-> IF PutRaisesFull(output_queue)
                                      THEN "full" ELSE "put"]
               /\ cur' = NoCur

\* the for statement is entered: iter(self.processors) on the list as it is
ChainIter(t) ==
    /\ process_audio_iter(t)
    /\ ChainObserve(t, [applied |-> << >>, stayed |-> Range(processors),
                         mutated |-> FALSE])
    /\ UNCHANGED << inLog, ret >>
    /\ UNCHANGED otherThanChain

ChainCall(t) ==
    /\ process_audio_call(t)
    /\ ChainObserve(t, cur)
    /\ UNCHANGED << inLog, ret >>
    /\ UNCHANGED otherThanChain

NextChain ==
    \/ StartOk
    \/ \E in_data \in CaptureData : ChainCapture(in_data)
    \/ \E p \in ChainProcessors : ChainAdd(p)
    \/ \E p \in ChainProcessors : ChainRemove(p)
    \/ \E t \in 1..MaxThreads : WorkerLoop(t)
    \/ \E t \in 1..MaxThreads : WorkerGet(t)
    \/ \E t \in 1..MaxThreads : ChainIter(t)
    \/ \E t \in 1..MaxThreads : ChainCall(t)

SpecChain == Init /\ [][NextChain]_vars

\* one session with the processor list built before start() and left alone
\* afterwards
NextOrder ==
    \/ StartOk
    \/ \E in_data \in CaptureData : ChainCapture(in_data)
    \/ \E p \in ChainProcessors : ~is_running /\ ChainAdd(p)
    \/ \E t \in 1..MaxThreads : WorkerLoop(t)
    \/ \E t \in 1..MaxThreads : WorkerGet(t)
    \/ \E t \in 1..MaxThreads : ChainIter(t)
    \/ \E t \in 1..MaxThreads : ChainCall(t)

SpecOrder == Init /\ [][NextOrder]_vars

\* one session with a processor list built before start() that may hold a
\* raising processor, which may be removed at any time
NextRaise ==
    \/ StartOk
    \/ \E in_data \in CaptureData : ChainCapture(in_data)
    \/ \E p \in ChainProcessors : ~is_running /\ ChainAdd(p)
    \/ ChainRemove("raise")
    \/ \E t \in 1..MaxThreads : WorkerLoop(t)
    \/ \E t \in 1..MaxThreads : WorkerGet(t)
    \/ \E t \in 1..MaxThreads : ChainIter(t)
    \/ \E t \in 1..MaxThreads : ChainCall(t)

SpecRaise == Init /\ [][NextRaise]_vars

\* one session with a processor list, built before start(), of processors
\* that change the length of the frame
NextResize ==
    \/ StartOk
    \/ \E in_data \in CaptureData : ChainCapture(in_data)
    \/ \E p \in ResizingProcessors : ~is_running /\ ChainAdd(p)
    \/ \E t \in 1..MaxThreads : WorkerLoop(t)
    \/ \E t \in 1..MaxThreads : WorkerGet(t)
    \/ \E t \in 1..MaxThreads : ChainIter(t)
    \/ \E t \in 1..MaxThreads : ChainCall(t)

SpecResize == Init /\ [][NextResize]_vars

\* one session with the processor list [gain] registered before start():
\* the capture callback and the worker, nothing taken from output_queue
NextE2E ==
    \/ processors = << "gain" >> /\ StartOk
    \/ \E in_data \in CaptureData : E2ECapture(in_data)
    \/ \E p \in ProcessorNames : processors = << >> /\ ChainAdd(p)
    \/ \E t \in 1..MaxThreads : WorkerLoop(t)
    \/ \E t \in 1..MaxThreads : WorkerGet(t)
    \/ \E t \in 1..MaxThreads : ChainIter(t)
    \/ \E t \in 1..MaxThreads : ChainCall(t)

SpecE2E == Init /\ [][NextE2E]_vars

\* one session with the processor list left empty, the value every
\* _output_callback call returns observed
NextPlay ==
    \/ StartOk
    \/ \E in_data \in CaptureData : ChainCapture(in_data)
    \/ \E frame_count \in FrameCounts : ChainPlayback(frame_count)
    \/ \E t \in 1..MaxThreads : WorkerLoop(t)
    \/ \E t \in 1..MaxThreads : WorkerGet(t)
    \/ \E t \in 1..MaxThreads : ChainIter(t)

SpecPlay == Init /\ [][NextPlay]_vars

(***************************************************************************)
(* The device resolver: AudioRouter.get_input_device / get_output_device   *)
(* (audio_routing.py:148-233)                                              *)
(***************************************************************************)
\* an entry of sd.query_devices()
Device(name, ins, outs) ==
    [name |-> name, max_input_channels |-> ins, max_output_channels |-> outs]

\* what sounddevice reports on a machine: the platform, the device list, the
\* default input and output device ids (-1: none), and whether the
\* enumeration primitive raises
NoDevicesHost ==
    [platform |-> "Linux", devices |-> << >>, default |-> << -1, -1 >>,
     query_raises |-> FALSE]

GoodHost ==
    [platform |-> "Linux",
     devices |-> << Device("mic", 1, 0), Device("speaker", 0, 2) >>,
     default |-> << 0, 1 >>, query_raises |-> FALSE]

\* a default device whose entry has an empty name
NamelessHost ==
    [platform |-> "Linux", devices |-> << Device("", 1, 2) >>,
     default |-> << 0, 0 >>, query_raises |-> FALSE]

\* sd.query_devices raises (PortAudio is not initialized)
RaisingHost ==
    [platform |-> "Linux", devices |-> << >>, default |-> << -1, -1 >>,
     query_raises |-> TRUE]

\* a Windows machine with VB-Audio Virtual Cable installed and the speakers
\* as default output device
CableHost ==
    [platform |-> "Windows",
     devices |-> << Device("mic", 1, 0), Device("speaker", 0, 2),
                    Device("CABLE Input (VB-Audio Virtual Cable)", 0, 2) >>,
     default |-> << 0, 1 >>, query_raises |-> FALSE]

\* the same machine with no default devices set
CableNoDefaultHost ==
    [platform |-> "Windows",
     devices |-> << Device("mic", 1, 0), Device("speaker", 0, 2),
                    Device("CABLE Input (VB-Audio Virtual Cable)", 0, 2) >>,
     default |-> << -1, -1 >>, query_raises |-> FALSE]

Hosts == {NoDevicesHost, GoodHost, NamelessHost, RaisingHost, CableHost,
          CableNoDefaultHost}

\* the truth value Python gives a device name
Truthy(name) == name \notin {"", "None"}

\* sd.query_devices(device=id) returns an entry
QueryOk(h, id) == ~h.query_raises /\ id >= 0 /\ id < Len(h.devices)

\* the names the platform's virtual cable goes by (lines 207-212)
IsVirtualName(platform, name) ==
    \/ platform = "Windows" /\ name = "CABLE Input (VB-Audio Virtual Cable)"
    \/ platform = "Darwin" /\ name = "BlackHole 2ch"

\* the entries of the host's device list that get_input_device and
\* get_output_device look for (lines 170, 207-212, 222)
InputDevices(h) ==
    IF h.query_raises THEN {}
    ELSE {i \in 1..Len(h.devices) : h.devices[i].max_input_channels > 0}

OutputDevices(h) ==
    IF h.query_raises THEN {}
    ELSE {i \in 1..Len(h.devices) : h.devices[i].max_output_channels > 0}

VirtualOutputDevices(h) ==
    {i \in OutputDevices(h) : IsVirtualName(h.platform, h.devices[i].name)}

\* the first entry of the list that satisfies Test, 0 when there is none
FirstIndex(devices, Test(_)) ==
    IF \E i \in 1..Len(devices) : Test(devices[i])
      THEN CHOOSE i \in 1..Len(devices) :
               Test(devices[i]) /\ \A j \in 1..(i - 1) : ~Test(devices[j])
      ELSE 0

\* get_input_device (lines 148-180)
get_input_device(h) ==
    IF QueryOk(h, h.default[1])
      THEN h.devices[h.default[1] + 1].name
      ELSE IF h.query_raises
             THEN "Dexent Virtual Input"
             ELSE LET HasInput(d) == d.max_input_channels > 0
                      k == FirstIndex(h.devices, HasInput)
                  IN  IF k # 0 THEN h.devices[k].name
                               ELSE "Dexent Virtual Input"

\* get_output_device (lines 182-233)
get_output_device(h) ==
    IF QueryOk(h, h.default[2])
      THEN h.devices[h.default[2] + 1].name
      ELSE IF h.query_raises \/ h.devices = << >>
             THEN "Dexent Virtual Output"
             ELSE LET IsVirtual(d) == /\ IsVirtualName(h.platform, d.name)
                                      /\ d.max_output_channels > 0
                      HasOutput(d) == d.max_output_channels > 0
                      v == FirstIndex(h.devices, IsVirtual)
                      k == FirstIndex(h.devices, HasOutput)
                  IN  IF v # 0 THEN h.devices[v].name
                      ELSE IF k # 0 THEN h.devices[k].name
                      ELSE "Dexent Virtual Output"

(***************************************************************************)
(* AudioProcessor (audio_processor.py:112-246)                             *)
(***************************************************************************)
\* a Thread object running _processing_loop: "resolve" (lines 145-149),
\* "open" (the sd.Stream of line 161), "fallback" (the sd.Stream of line
\* 180), "stream" (the loops of lines 173 and 188), "mock" (the loop of line
\* 229), "dead"
NewApThread ==
    [pc |-> "resolve", host |-> NoDevicesHost, input_device |-> "None",
     output_device |-> "None", chunk_index |-> 0]

ApThreadIds == 1..Len(apThreads)

ap_is_alive(t) == t \in ApThreadIds /\ apThreads[t].pc # "dead"

\* what sd.Stream(device=(input_device, output_device), ...) of line 161 can
\* do: a name that matches no device is a ValueError, a device that exists
\* may still fail to open
StreamOutcomes(h, input_device, output_device) ==
    IF /\ \E i \in 1..Len(h.devices) : h.devices[i].name = input_device
       /\ \E i \in 1..Len(h.devices) : h.devices[i].name = output_device
      THEN {"ok", "PortAudioError"}
      ELSE {"ValueError"}

\* what sd.Stream() with the default devices (line 180) can do
FallbackOutcomes(h) ==
    IF QueryOk(h, h.default[1]) /\ QueryOk(h, h.default[2])
      THEN {"ok", "PortAudioError"}
      ELSE {"PortAudioError"}

\* start() (lines 112-122)
ApStart ==
    /\ apcallerpc = "idle"
    /\ IF ap_running
         THEN UNCHANGED << ap_running, ap_thread, apThreads >>
         ELSE /\ ap_running' = TRUE
              /\ apThreads' = Append(apThreads, NewApThread)
              /\ ap_thread' = Len(apThreads) + 1
    /\ UNCHANGED << apcallerpc, mockChunks, stopCalled >>
    /\ UNCHANGED otherThanAP

\* stop() up to the join (lines 124-132)
ApStop ==
    /\ apcallerpc = "idle"
    /\ IF ~ap_running
         THEN UNCHANGED << ap_running, ap_thread, apcallerpc, stopCalled >>
         ELSE /\ ap_running' = FALSE
              /\ stopCalled' = TRUE
              /\ IF ap_thread # 0 /\ ap_is_alive(ap_thread)
                   THEN apcallerpc' = "joining" /\ UNCHANGED ap_thread
                   ELSE apcallerpc' = "idle" /\ ap_thread' = 0
    /\ UNCHANGED << apThreads, mockChunks >>
    /\ UNCHANGED otherThanAP

\* self.thread.join(timeout=2.0) returns because the thread has ended
\* (lines 132-133)
ApStopJoined ==
    /\ apcallerpc = "joining"
    /\ ~ap_is_alive(ap_thread)
    /\ apcallerpc' = "idle"
    /\ ap_thread' = 0
    /\ UNCHANGED << ap_running, apThreads, mockChunks, stopCalled >>
    /\ UNCHANGED otherThanAP

\* self.thread.join(timeout=2.0) returns because the two seconds have
\* passed: the thread is in a call into PortAudio, the loops poll the flag
\* every 0.1 s or faster
ApStopJoinTimeout ==
    /\ apcallerpc = "joining"
    /\ ap_is_alive(ap_thread)
    /\ apThreads[ap_thread].pc \in {"resolve", "open", "fallback"}
    /\ apcallerpc' = "idle"
    /\ ap_thread' = 0
    /\ UNCHANGED << ap_running, apThreads, mockChunks, stopCalled >>
    /\ UNCHANGED otherThanAP

\* _processing_loop, lines 145-156: the devices are resolved on the host h;
\* without an input or an output device the mock loop is entered
ApResolve(t, h) ==
    /\ t \in ApThreadIds
    /\ apThreads[t].pc = "resolve"
    /\ LET input_device == get_input_device(h)
           output_device == get_output_device(h)
       IN  apThreads' = [apThreads EXCEPT ![t] =
               [@ EXCEPT !.host = h,
                         !.input_device = input_device,
                         !.output_device = output_device,
                         !.pc = IF ~Truthy(input_device) \/ ~Truthy(output_device)
                                  THEN "mock" ELSE "open"]]
    /\ UNCHANGED << ap_running, ap_thread, apcallerpc, mockChunks, stopCalled >>
    /\ UNCHANGED otherThanAP

\* an exception reaches "except Exception" (lines 191-195): running is
\* cleared and _run_mock_processing_loop is called
ApLoopFails(t) ==
    /\ ap_running' = FALSE
    /\ apThreads' = [apThreads EXCEPT ![t].pc = "mock"]

\* lines 159-174: the stream is opened with the resolved devices
ApOpen(t, outcome) ==
    /\ t \in ApThreadIds
    /\ apThreads[t].pc = "open"
    /\ outcome \in StreamOutcomes(apThreads[t].host, apThreads[t].input_device,
                                  apThreads[t].output_device)
    /\ CASE outcome = "ok" ->
              /\ apThreads' = [apThreads EXCEPT ![t].pc = "stream"]
              /\ UNCHANGED ap_running
         [] outcome = "ValueError" ->
              /\ apThreads' = [apThreads EXCEPT ![t].pc = "fallback"]
              /\ UNCHANGED ap_running
         [] OTHER -> ApLoopFails(t)
    /\ UNCHANGED << ap_thread, apcallerpc, mockChunks, stopCalled >>
    /\ UNCHANGED otherThanAP

\* lines 175-189: after a ValueError the stream is opened with the default
\* devices; an exception raised here is not caught by "except ValueError"
ApFallback(t, outcome) ==
    /\ t \in ApThreadIds
    /\ apThreads[t].pc = "fallback"
    /\ outcome \in FallbackOutcomes(apThreads[t].host)
    /\ IF outcome = "ok"
         THEN /\ apThreads' = [apThreads EXCEPT ![t].pc = "stream"]
              /\ UNCHANGED ap_running
         ELSE ApLoopFails(t)
    /\ UNCHANGED << ap_thread, apcallerpc, mockChunks, stopCalled >>
    /\ UNCHANGED otherThanAP

\* "while self.running: time.sleep(0.1)" ends (lines 173-174, 188-189) and
\* the thread ends after the cleanup of lines 196-199
ApStream(t) ==
    /\ t \in ApThreadIds
    /\ apThreads[t].pc = "stream"
    /\ ~ap_running
    /\ apThreads' = [apThreads EXCEPT ![t].pc = "dead"]
    /\ UNCHANGED << ap_running, ap_thread, apcallerpc, mockChunks, stopCalled >>
    /\ UNCHANGED otherThanAP

\* one test of "while self.running" in _run_mock_processing_loop (line 229):
\* a chunk is processed (lines 231-240), or process_audio raises, running is
\* cleared (lines 244-246) and the thread ends, or the flag is clear and the
\* thread ends
ApMock(t, raises) ==
    /\ t \in ApThreadIds
    /\ apThreads[t].pc = "mock"
    /\ IF ap_running
         THEN IF raises
                THEN /\ ap_running' = FALSE
                     /\ apThreads' = [apThreads EXCEPT ![t].pc = "dead"]
                     /\ UNCHANGED mockChunks
                ELSE /\ mockChunks < MaxMockChunks
                     /\ mockChunks' = mockChunks + 1
                     /\ apThreads' = [apThreads EXCEPT ![t].chunk_index = @ + 1]
                     /\ UNCHANGED ap_running
         ELSE /\ ~raises
              /\ apThreads' = [apThreads EXCEPT ![t].pc = "dead"]
              /\ UNCHANGED << ap_running, mockChunks >>
    /\ UNCHANGED << ap_thread, apcallerpc, stopCalled >>
    /\ UNCHANGED otherThanAP

NextAP ==
    \/ Len(apThreads) < MaxApThreads /\ ApStart
    \/ ApStop
    \/ ApStopJoined
    \/ ApStopJoinTimeout
    \/ \E t \in 1..MaxApThreads, h \in Hosts : ApResolve(t, h)
    \/ \E t \in 1..MaxApThreads :
           \E outcome \in {"ok", "ValueError", "PortAudioError"} : ApOpen(t, outcome)
    \/ \E t \in 1..MaxApThreads :
           \E outcome \in {"ok", "PortAudioError"} : ApFallback(t, outcome)
    \/ \E t \in 1..MaxApThreads : ApStream(t)
    \/ \E t \in 1..MaxApThreads, raises \in BOOLEAN : ApMock(t, raises)

SpecAP == Init /\ [][NextAP]_vars

(***************************************************************************)
(* RealtimePreviewProcessor (realtime_preview.py:51-308)                   *)
(***************************************************************************)
\* what processing a request's audio does: it completes, noise suppression
\* or accent conversion raises (_process_audio, lines 141-164), or sf.write
\* raises (_save_preview, lines 177-189)
Failures == {"ok", "process_raises", "save_fails"}

\* the job ids the clock can produce (line 250), and one it cannot
JobIds == 1..MaxClock

UnknownJobId == MaxClock + 1

\* a Thread object running _process_loop: "loop" (the test of line 70),
\* "get" (line 73), "processing" (inside _process_preview_request after the
\* status update of line 101), "dead"
NewPvThread == [pc |-> "loop", request |-> NoRequest]

PvThreadIds == 1..Len(pvThreads)

pv_is_alive(t) == t \in PvThreadIds /\ pvThreads[t].pc # "dead"

\* self.current_jobs[job_id] = job
SetJob(jobs, job_id, job) ==
    [id \in DOMAIN jobs \cup {job_id} |-> IF id = job_id THEN job ELSE jobs[id]]

\* the job record of lines 253-263; owner stands for created_at and
\* parameters, which tell whose submission the record is
NewJob(job_id, serial) ==
    [job_id |-> job_id, status |-> "queued", result |-> "None",
     owner |-> serial]

\* _update_job_status(job_id, status, result) (lines 191-207)
update_job_status(jobs, job_id, status, result) ==
    IF job_id \in DOMAIN jobs
      THEN [jobs EXCEPT ![job_id] =
               [@ EXCEPT !.status = status,
                         !.result = IF result # "None" THEN result ELSE @]]
      ELSE jobs

\* an error status stored without a message
finish_without_message(jobs, request) ==
    IF request.fails = "process_raises"
      THEN update_job_status(jobs, request.job_id, "error", "None")
      ELSE update_job_status(jobs, request.job_id, "completed", "None")

\* a request whose processing raised is dropped without a status
finish_raising_unmarked(jobs, request) ==
    IF request.fails = "process_raises"
      THEN jobs
      ELSE update_job_status(jobs, request.job_id, "completed", "preview_file")

\* _process_preview_request from line 104 on: _process_audio returns None
\* when it raised, _save_preview returns None when it raised
finish_preview_request(jobs, request) ==
    CASE request.fails = "process_raises" ->
             update_job_status(jobs, request.job_id, "error", "Processing failed")
      [] request.fails = "save_fails" ->
             update_job_status(jobs, request.job_id, "completed", "None")
      [] OTHER ->
             update_job_status(jobs, request.job_id, "completed", "preview_file")

\* datetime.now() advances
Tick ==
    /\ now < MaxClock
    /\ now' = now + 1
    /\ UNCHANGED << pv_running, pv_thread, preview_queue, current_jobs,
                    pvThreads, clients, nSubmits, issued, accepted, lastQuery >>
    /\ UNCHANGED otherThanJob

\* the audio_data a client passes: None, an empty array, an array of samples
AudioInputs == {"None", "empty", "samples"}

\* len(audio_data)
AudioLen(audio_data) == IF audio_data = "samples" THEN 1 ELSE 0

\* a validity test that looks for None only
InvalidAudioNoneOnly(audio_data) == audio_data = "None"

\* line 241: audio_data is None or len(audio_data) == 0
InvalidAudio(audio_data) == audio_data = "None" \/ AudioLen(audio_data) = 0

\* submit_preview_request, lines 239-276: invalid audio data is refused and
\* {"error": "Invalid audio data"} is returned (line 242); otherwise the job
\* id is made from the clock and the record is stored. clients[c].error is
\* the error of what the client's last submission returned
SubmitRecord(c, audio_data, fails) ==
    /\ clients[c].pc = "idle"
    /\ IF InvalidAudio(audio_data)
         THEN /\ clients' = [clients EXCEPT ![c].error = "Invalid audio data"]
              /\ UNCHANGED << current_jobs, nSubmits, issued >>
         ELSE /\ nSubmits < MaxSubmits
              /\ nSubmits' = nSubmits + 1
              /\ current_jobs' = SetJob(current_jobs, now, NewJob(now, nSubmits + 1))
              /\ issued' = issued \cup {now}
              /\ clients' = [clients EXCEPT ![c] =
                     [pc |-> "check",
                      request |-> [job_id |-> now, serial |-> nSubmits + 1,
                                   fails |-> fails],
                      joins |-> 0, error |-> "None"]]
    /\ UNCHANGED << pv_running, pv_thread, preview_queue, pvThreads, now,
                    accepted, lastQuery >>
    /\ UNCHANGED otherThanJob

\* lines 279-280 and the test of line 53: "if not self.running" in
\* submit_preview_request and again in start()
SubmitCheck(c) ==
    /\ clients[c].pc = "check"
    /\ clients' = [clients EXCEPT ![c].pc =
                       IF pv_running THEN "put" ELSE "start"]
    /\ UNCHANGED << pv_running, pv_thread, preview_queue, current_jobs,
                    pvThreads, now, nSubmits, issued, accepted, lastQuery >>
    /\ UNCHANGED otherThanJob

\* start() called by a client: the test of line 53
PvStart(c) ==
    /\ clients[c].pc = "idle"
    /\ ~pv_running
    /\ clients' = [clients EXCEPT ![c].pc = "start"]
    /\ UNCHANGED << pv_running, pv_thread, preview_queue, current_jobs,
                    pvThreads, now, nSubmits, issued, accepted, lastQuery >>
    /\ UNCHANGED otherThanJob

\* start(), lines 54-58, after the test of line 53 found running false
StartSet(c) ==
    /\ clients[c].pc = "start"
    /\ Len(pvThreads) < MaxPvThreads
    /\ pv_running' = TRUE
    /\ pvThreads' = Append(pvThreads, NewPvThread)
    /\ pv_thread' = Len(pvThreads) + 1
    /\ clients' = [clients EXCEPT ![c].pc =
                       IF clients[c].request # NoRequest THEN "put" ELSE "idle"]
    /\ UNCHANGED << preview_queue, current_jobs, now, nSubmits, issued,
                    accepted, lastQuery >>
    /\ UNCHANGED otherThanJob

\* lines 283-290: preview_queue.put(request) waits while the queue is full;
\* then the job_id is returned
SubmitPut(c) ==
    /\ clients[c].pc = "put"
    /\ Len(preview_queue) < pvMaxsize
    /\ preview_queue' = Append(preview_queue, clients[c].request)
    /\ accepted' = accepted \cup {[job_id |-> clients[c].request.job_id,
                                   serial |-> clients[c].request.serial]}
    /\ clients' = [clients EXCEPT ![c] =
                       [pc |-> "idle", request |-> NoRequest, joins |-> 0,
                        error |-> "None"]]
    /\ UNCHANGED << pv_running, pv_thread, current_jobs, pvThreads, now,
                    nSubmits, issued, lastQuery >>
    /\ UNCHANGED otherThanJob

\* stop() up to the join (lines 60-65)
PvStop(c) ==
    /\ clients[c].pc = "idle"
    /\ pv_running
    /\ pv_running' = FALSE
    /\ clients' = [clients EXCEPT ![c] =
                       IF pv_thread # 0 /\ pv_is_alive(pv_thread)
                         THEN [@ EXCEPT !.pc = "joining", !.joins = pv_thread]
                         ELSE @]
    /\ UNCHANGED << pv_thread, preview_queue, current_jobs, pvThreads, now,
                    nSubmits, issued, accepted, lastQuery >>
    /\ UNCHANGED otherThanJob

\* self.thread.join(timeout=5) returns because the thread has ended
PvStopJoined(c) ==
    /\ clients[c].pc = "joining"
    /\ ~pv_is_alive(clients[c].joins)
    /\ clients' = [clients EXCEPT ![c] = [@ EXCEPT !.pc = "idle", !.joins = 0]]
    /\ UNCHANGED << pv_running, pv_thread, preview_queue, current_jobs,
                    pvThreads, now, nSubmits, issued, accepted, lastQuery >>
    /\ UNCHANGED otherThanJob

\* self.thread.join(timeout=5) returns because five seconds have passed: the
\* worker's get waits at most one second, so the worker is processing a
\* request
PvStopJoinTimeout(c) ==
    /\ clients[c].pc = "joining"
    /\ pv_is_alive(clients[c].joins)
    /\ pvThreads[clients[c].joins].pc = "processing"
    /\ clients' = [clients EXCEPT ![c] = [@ EXCEPT !.pc = "idle", !.joins = 0]]
    /\ UNCHANGED << pv_running, pv_thread, preview_queue, current_jobs,
                    pvThreads, now, nSubmits, issued, accepted, lastQuery >>
    /\ UNCHANGED otherThanJob

\* what get_job_status(job_id) returns (lines 305-308)
get_job_status(jobs, job_id) ==
    IF job_id \in DOMAIN jobs
      THEN [job_id |-> job_id, found |-> TRUE, record |-> jobs[job_id]]
      ELSE [job_id |-> job_id, found |-> FALSE, record |-> NoRequest]

GetJobStatus(c, job_id) ==
    /\ clients[c].pc = "idle"
    /\ lastQuery' = get_job_status(current_jobs, job_id)
    /\ UNCHANGED << pv_running, pv_thread, preview_queue, current_jobs,
                    pvThreads, clients, now, nSubmits, issued, accepted >>
    /\ UNCHANGED otherThanJob

\* _process_loop: while self.running (line 70)
PvLoop(t) ==
    /\ t \in PvThreadIds
    /\ pvThreads[t].pc = "loop"
    /\ pvThreads' = [pvThreads EXCEPT ![t].pc =
                         IF pv_running THEN "get" ELSE "dead"]
    /\ UNCHANGED << pv_running, pv_thread, preview_queue, current_jobs,
                    clients, now, nSubmits, issued, accepted, lastQuery >>
    /\ UNCHANGED otherThanJob

\* preview_queue.get(timeout=1) (line 73): a request is taken and
\* _process_preview_request sets its job to "processing" (line 101), or the
\* second passes, queue.Empty is swallowed by the bare except of line 80 and
\* the loop goes on
PvGet(t) ==
    /\ t \in PvThreadIds
    /\ pvThreads[t].pc = "get"
    /\ IF preview_queue # << >>
         THEN /\ pvThreads' = [pvThreads EXCEPT ![t] =
                     [pc |-> "processing", request |-> Head(preview_queue)]]
              /\ preview_queue' = Tail(preview_queue)
              /\ current_jobs' = update_job_status(
                     current_jobs, Head(preview_queue).job_id, "processing",
                     "None")
         ELSE /\ pvThreads' = [pvThreads EXCEPT ![t].pc = "loop"]
              /\ UNCHANGED << preview_queue, current_jobs >>
    /\ UNCHANGED << pv_running, pv_thread, clients, now, nSubmits, issued,
                    accepted, lastQuery >>
    /\ UNCHANGED otherThanJob

\* the rest of _process_preview_request and task_done (lines 104-126, 79)
PvFinish(t) ==
    /\ t \in PvThreadIds
    /\ pvThreads[t].pc = "processing"
    /\ current_jobs' = finish_preview_request(current_jobs, pvThreads[t].request)
    /\ pvThreads' = [pvThreads EXCEPT ![t] = NewPvThread]
    /\ UNCHANGED << pv_running, pv_thread, preview_queue, clients, now,
                    nSubmits, issued, accepted, lastQuery >>
    /\ UNCHANGED otherThanJob

NextJob ==
    \/ Tick
    \/ \E c \in 1..NClients, fails \in Failures :
           SubmitRecord(c, "samples", fails)
    \/ \E c \in 1..NClients : SubmitCheck(c)
    \/ \E c \in 1..NClients : PvStart(c)
    \/ \E c \in 1..NClients : StartSet(c)
    \/ \E c \in 1..NClients : SubmitPut(c)
    \/ \E c \in 1..NClients : PvStop(c)
    \/ \E c \in 1..NClients : PvStopJoined(c)
    \/ \E c \in 1..NClients : PvStopJoinTimeout(c)
    \/ \E c \in 1..NClients, job_id \in JobIds \cup {UnknownJobId} :
           GetJobStatus(c, job_id)
    \/ \E t \in 1..MaxPvThreads : PvLoop(t)
    \/ \E t \in 1..MaxPvThreads : PvGet(t)
    \/ \E t \in 1..MaxPvThreads : PvFinish(t)

SpecJob == Init /\ [][NextJob]_vars

\* one client calling submit_preview_request and stop in turn, and the
\* worker threads
NextWorker ==
    \/ Tick
    \/ \E fails \in Failures : SubmitRecord(1, "samples", fails)
    \/ SubmitCheck(1)
    \/ StartSet(1)
    \/ SubmitPut(1)
    \/ PvStop(1)
    \/ PvStopJoined(1)
    \/ PvStopJoinTimeout(1)
    \/ \E t \in 1..MaxPvThreads : PvLoop(t)
    \/ \E t \in 1..MaxPvThreads : PvGet(t)
    \/ \E t \in 1..MaxPvThreads : PvFinish(t)

SpecWorker == Init /\ [][NextWorker]_vars

\* one client whose submissions may carry invalid audio data, and the worker
\* threads
NextReject ==
    \/ Tick
    \/ \E audio_data \in AudioInputs, fails \in Failures :
           SubmitRecord(1, audio_data, fails)
    \/ SubmitCheck(1)
    \/ StartSet(1)
    \/ SubmitPut(1)
    \/ \E t \in 1..MaxPvThreads : PvLoop(t)
    \/ \E t \in 1..MaxPvThreads : PvGet(t)
    \/ \E t \in 1..MaxPvThreads : PvFinish(t)

SpecReject == Init /\ [][NextReject]_vars

\* one client that only submits (stop() is never called), and the worker
\* threads
NextSubmitOnly ==
    \/ Tick
    \/ \E fails \in Failures : SubmitRecord(1, "samples", fails)
    \/ SubmitCheck(1)
    \/ StartSet(1)
    \/ SubmitPut(1)
    \/ \E t \in 1..MaxPvThreads : PvLoop(t)
    \/ \E t \in 1..MaxPvThreads : PvGet(t)
    \/ \E t \in 1..MaxPvThreads : PvFinish(t)

\* every worker thread is scheduled, and processing a request returns
SpecSubmitOnly ==
    /\ Init /\ [][NextSubmitOnly]_vars
    /\ \A t \in 1..MaxPvThreads :
           WF_vars(PvLoop(t) \/ PvGet(t) \/ PvFinish(t))

\* the request of submission number s is on preview_queue or in a worker's
\* hands
InFlight(s) ==
    \/ \E i \in 1..Len(preview_queue) : preview_queue[i].serial = s
    \/ \E t \in PvThreadIds :
           pvThreads[t].pc = "processing" /\ pvThreads[t].request.serial = s

(***************************************************************************)
(* Claims about RealtimePreviewProcessor                                   *)
(***************************************************************************)
\* C17: the status of a job only moves along queued -> processing ->
\* completed or error: a record is created as "queued", and a step that
\* changes the status stored under a job id takes one edge of that chain
C17_StatusMonotone ==
    [][\A id \in DOMAIN current_jobs' :
          IF id \in DOMAIN current_jobs
            THEN \/ current_jobs'[id].status = current_jobs[id].status
                 \/ << current_jobs[id].status, current_jobs'[id].status >> \in
                        { << "queued", "processing" >>,
                          << "processing", "completed" >>,
                          << "processing", "error" >> }
            ELSE current_jobs'[id].status = "queued"]_vars

\* C18: when the worker leaves a request whose processing raises, the job
\* is in status "error" with a non-empty message and the worker is back at
\* the head of its loop; a worker only ends after running was cleared
C18_RaisingJobEndsInError ==
    [][\A t \in PvThreadIds :
          /\ (/\ pvThreads[t].pc = "processing"
              /\ pvThreads[t].request.fails = "process_raises"
              /\ pvThreads'[t].pc # "processing")
             => /\ current_jobs'[pvThreads[t].request.job_id].status = "error"
                /\ current_jobs'[pvThreads[t].request.job_id].result
                       \notin {"None", ""}
                /\ pvThreads'[t].pc = "loop"
          /\ (pvThreads[t].pc # "dead" /\ pvThreads'[t].pc = "dead")
             => ~pv_running]_vars

\* one worker has finished a raising job in "error" and afterwards completed
\* the next job
C18_Witness ==
    /\ Len(pvThreads) = 1
    /\ \E i \in DOMAIN current_jobs, j \in DOMAIN current_jobs :
           /\ current_jobs[i].owner < current_jobs[j].owner
           /\ current_jobs[i].status = "error"
           /\ current_jobs[i].result = "Processing failed"
           /\ current_jobs[j].status = "completed"

\* C34: in the context a call returns, is_speaking is set exactly when the
\* buffer of the current utterance holds something
C34_SpeakingIffBuffered ==
    nCalls > 0 =>
        (context.is_speaking <=> context.current_utterance # << >>)

\* C34 witness: an utterance was finalized, which left the segmenter idle
\* with an empty buffer, and the caller speaks again: two voice-active
\* chunks are buffered
C34_Witness ==
    /\ Len(context.translations) = 1
    /\ context.is_speaking
    /\ Len(context.current_utterance) >= 2
    /\ nSpeech = MaxSpeech

\* C33: returning a job_id puts the request on preview_queue; a request
\* that is queued or being processed is some time later neither; and the step
\* in which a worker lets go of a request leaves the request's job in status
\* completed or error
C33_AcceptedJobFinishes ==
    /\ \A s \in 1..MaxSubmits : InFlight(s) ~> ~InFlight(s)
    /\ [][/\ \A a \in accepted' \ accepted : InFlight(a.serial)'
          /\ \A s \in 1..MaxSubmits :
                 (InFlight(s) /\ ~InFlight(s)')
                    => \E t \in PvThreadIds :
                          /\ pvThreads[t].pc = "processing"
                          /\ pvThreads[t].request.serial = s
                          /\ current_jobs'[pvThreads[t].request.job_id].status
                                 \in {"completed", "error"}]_vars

\* C33 witness: every submission the bound allows was accepted, nothing is
\* queued or being processed, and a job ended in error
C33_Witness ==
    /\ Cardinality(accepted) = MaxSubmits
    /\ \A s \in 1..MaxSubmits : ~InFlight(s)
    /\ \A id \in DOMAIN current_jobs :
           current_jobs[id].status \in {"completed", "error"}
    /\ \E id \in DOMAIN current_jobs : current_jobs[id].status = "error"

\* C36: a job whose status is completed has a result, the path of the saved
\* preview file
C36_CompletedCarriesResult ==
    \A id \in DOMAIN current_jobs :
        current_jobs[id].status = "completed"
           => current_jobs[id].result = "preview_file"

\* C37: two submissions that returned a job_id returned different ones, and
\* storing the record of a new job replaces no record
C37_JobIdsUnique ==
    /\ [](\A a \in accepted, b \in accepted :
             a.serial # b.serial => a.job_id # b.job_id)
    /\ [][nSubmits' # nSubmits
             => DOMAIN current_jobs' # DOMAIN current_jobs]_vars

\* C38: a submission whose audio data is None or empty returns the error
\* "Invalid audio data" and no job_id, and it leaves the job records, the
\* queue, the worker threads and the running flag as they were
C38_RejectedSubmissionNoEffect ==
    [][\A audio_data \in {"None", "empty"}, fails \in Failures :
          SubmitRecord(1, audio_data, fails)
             => /\ clients'[1].error = "Invalid audio data"
                /\ clients'[1].pc = "idle"
                /\ clients'[1].request = NoRequest
                /\ UNCHANGED << current_jobs, preview_queue, pvThreads,
                                pv_running, pv_thread, nSubmits, issued,
                                accepted >>]_vars

\* C38 witness: after a job was accepted and completed, a submission was
\* rejected: the one record is that of the completed job, nothing is queued
C38_Witness ==
    /\ clients[1].error = "Invalid audio data"
    /\ clients[1].pc = "idle"
    /\ Cardinality(accepted) = 1
    /\ DOMAIN current_jobs = {1}
    /\ current_jobs[1].status = "completed"
    /\ preview_queue = << >>

\* C19: get_job_status changes nothing; for an id no submission has made it
\* returns not-found, and for an id that a submission returned it returns
\* the record of that submission's job
C19_JobStatusLookup ==
    [][lastQuery' # lastQuery =>
          /\ current_jobs' = current_jobs
          /\ lastQuery'.job_id \notin issued => ~lastQuery'.found
          /\ \A a \in accepted :
                 a.job_id = lastQuery'.job_id
                    => /\ lastQuery'.found
                       /\ lastQuery'.record.owner = a.serial]_vars

\* C20: at most one worker thread is alive and at most one job is in status
\* "processing"
C20_SingleConsumer ==
    /\ Cardinality({t \in PvThreadIds : pv_is_alive(t)}) <= 1
    /\ Cardinality({id \in DOMAIN current_jobs :
                        current_jobs[id].status = "processing"}) <= 1

(***************************************************************************)
(* Claims about AudioIO                                                    *)
(***************************************************************************)
\* the worker thread t puts its frame on output_queue in this step
WorkerPuts(t) ==
    /\ t \in ThreadIds
    /\ threads[t].pc \in {"iter", "call"}
    /\ threads'[t].pc = "loop"

\* C1: a put into a full queue drops the incoming frame and never blocks: a
\* capture callback that fires while input_queue is full leaves input_queue
\* as it is, a worker put into a full output_queue leaves output_queue as it
\* is, and in both cases the step can be taken (the callback returns, the
\* worker goes on) whatever the queue holds.
C1_DropNewestNeverBlocks ==
    /\ [][ /\ (captured' # captured /\ Len(input_queue) >= maxsize)
               => input_queue' = input_queue
           /\ \A t \in 1..MaxThreads :
                  (WorkerPuts(t) /\ Len(output_queue) >= maxsize)
                      => output_queue' = output_queue ]_vars
    /\ [](Len(input_queue) >= maxsize /\ openIn > 0 /\ captured < MaxFrames
             => ENABLED InputCallback)
    /\ [](\A t \in ThreadIds :
             (Len(output_queue) >= maxsize /\ threads[t].pc = "iter")
                 => ENABLED WorkerIter(t))

\* C1 witness: the capture callback has dropped a frame on a full
\* input_queue and a worker has dropped a frame on a full output_queue, which
\* still holds an older frame
C1_Witness ==
    /\ dropped.in > 0
    /\ dropped.out > 0
    /\ output_queue # << >>
    /\ output_queue[1].id < captured

\* C2: input_queue and output_queue never hold more than their capacity
C2_QueuesBounded ==
    /\ Len(input_queue) <= maxsize
    /\ Len(output_queue) <= maxsize

\* C2 witness: both queues have been at capacity (a put on each of them has
\* been refused) and output_queue is at capacity
C2_Witness ==
    /\ Len(output_queue) = maxsize
    /\ dropped.in > 0
    /\ dropped.out > 0

\* C3: the frames the playback callback returns are an order-preserving
\* subsequence of the captured frames: every frame it returns was captured
\* after the frame it returned before
C3_FifoOrder ==
    [][lastDelivered' # lastDelivered => lastDelivered'.id > lastDelivered.id]_vars

\* C7: after a start() that found the engine running, exactly one worker
\* thread and one pair of open streams exist
C7_StartTwiceOneWorker ==
    lastCall = "already_running"
        => /\ Cardinality(LiveThreads) = 1
           /\ openIn = 1
           /\ openOut = 1

\* C8: at most one worker thread is executing the processing loop
C8_AtMostOneWorker == Cardinality(LiveThreads) <= 1

\* C9: once stop() has returned both queues are empty, and the playback
\* callback never returns a frame captured in an earlier session
C9_StopResetsQueues ==
    /\ (callerpc = "idle" /\ lastCall \in {"stopped", "stopped_timeout"})
           => (input_queue = << >> /\ output_queue = << >>)
    /\ lastDelivered.id # 0 => lastDelivered.sess = lastDelivered.during

\* C10: a stop() that waits in join() returns, whether or not the worker
\* thread ends
C10_StopReturns == (callerpc = "joining") ~> (callerpc = "idle")

\* C10 witness: stop() has set is_running false, closed the streams, and
\* returned from a join that timed out while the worker thread is alive
C10_Witness ==
    /\ lastCall = "stopped_timeout"
    /\ callerpc = "idle"
    /\ ~is_running
    /\ openIn = 0
    /\ openOut = 0
    /\ is_alive(processing_thread)

(***************************************************************************)
(* Claims about the processor chain and the playback callback              *)
(***************************************************************************)
\* C11: a frame on which a processor raised is forwarded unmodified: the
\* worker puts it on output_queue (or finds output_queue full) with the
\* samples it was captured with.
C11_ProcessorErrorPassThrough ==
    done.raised =>
        /\ done.out \in {"put", "full"}
        /\ done.data = inLog[done.id]

\* C12: no processor that stays registered from the moment the worker enters
\* the for loop for a frame until it leaves it is skipped for that frame,
\* whatever add_processor and remove_processor calls happen in between.
C12_NoRegisteredProcessorSkipped ==
    (done.id # 0 /\ ~done.raised) => done.stayed \subseteq Range(done.applied)

\* C14: with the processor list empty, every frame the worker finishes is put
\* with the samples (content and count) it was captured with, frames are
\* finished in capture order, and when no queue overflowed every captured
\* frame is put.
C14_IdentityPipeline ==
    /\ []((done.id # 0 /\ done.chain = << >> /\ ~done.mutated) =>
              /\ done.out \in {"put", "full"}
              /\ done.data = inLog[done.id])
    /\ [](processors = << >> =>
              \A i \in 1..Len(output_queue) :
                  output_queue[i].data = inLog[output_queue[i].id])
    /\ [][ (done' # done /\ done'.chain = << >> /\ ~done'.mutated) =>
               /\ done'.id > done.id
               /\ dropped'.in = 0 => done'.id = done.id + 1
               /\ (dropped'.in = 0 /\ dropped'.out = 0) => done'.out = "put"
         ]_vars

\* C14 witness: the two captured frames, of one and of two samples, have both
\* been put on output_queue with no overflow, the first one played back
C14_Witness ==
    /\ inLog = << << 300 >>, << -2, 5 >> >>
    /\ processors = << >>
    /\ done.id = MaxChainFrames
    /\ done.out = "put"
    /\ done.data = << -2, 5 >>
    /\ dropped = [in |-> 0, out |-> 0]
    /\ lastDelivered.id = 1

\* p_n(...p_2(p_1(d))...) for the list c = [p_1, ..., p_n]
RECURSIVE Compose(_, _)
Compose(c, d) ==
    IF c = << >> THEN d ELSE Compose(Tail(c), CallProcessor(Head(c), d))

\* C15: a frame processed by a list [p1, ..., pn] that was not mutated
\* meanwhile and of which no processor raised comes out as
\* pn(...p2(p1(F))...): the processors are applied in list order, each to
\* the result of the one before.
C15_ChainOrder ==
    (done.id # 0 /\ ~done.raised /\ ~done.mutated) =>
        /\ done.applied = done.chain
        /\ done.data = astype_int16(Compose(done.chain, inLog[done.id]))

\* C15 witness: the frame << 300 >> went through [offset, invert] and was put
\* as << -301 >>
C15_Witness ==
    /\ done.chain = << "offset", "invert" >>
    /\ done.applied = << "offset", "invert" >>
    /\ inLog[done.id] = << 300 >>
    /\ done.data = << -301 >>
    /\ done.out = "put"

\* C16: a playback callback that finds output_queue empty returns
\* frame_count * CHANNELS zero samples and paContinue and leaves the queue
\* empty; one that finds a frame returns the oldest frame and paContinue and
\* removes that frame only; and while the output stream is open the callback
\* can always return.
C16_PlaybackNeverStalls ==
    /\ [][ (ret' # ret \/ Len(output_queue') < Len(output_queue)) =>
               /\ ret'.flag = "paContinue"
               /\ IF output_queue = << >>
                    THEN /\ Len(ret'.data) = ret'.frame_count * CHANNELS
                         /\ \A i \in 1..Len(ret'.data) : ret'.data[i] = 0
                         /\ output_queue' = << >>
                    ELSE /\ ret'.data = output_queue[1].data
                         /\ output_queue' = Tail(output_queue)
         ]_vars
    /\ [](openOut > 0 => ENABLED ChainPlayback(2))

\* C16 witness: the callback has returned a captured frame, and then, asked
\* for two frames with output_queue empty, two zero samples
C16_Witness ==
    /\ lastDelivered.id # 0
    /\ output_queue = << >>
    /\ ret = [data |-> << 0, 0 >>, flag |-> "paContinue", frame_count |-> 2]

\* C31: the step in which a processor raises leaves the worker alive at the
\* head of its loop with the running flag and both queues as they were (the
\* frame is not put back); no worker ends while the flag is set; the next
\* frame a worker takes is the head of input_queue and enters the for loop
\* at the first processor; and no frame is finished twice
C31_WorkerSurvivesProcessorError ==
    /\ [](\A t \in ThreadIds : is_running => threads[t].pc # "dead")
    /\ [][(done' # done /\ done'.raised) =>
             /\ \E t \in ThreadIds :
                    /\ threads[t].pc \in {"iter", "call"}
                    /\ threads[t].frame.id = done'.id
                    /\ threads'[t].pc = "loop"
                    /\ threads'[t].frame = NoFrame
             /\ is_running' = is_running
             /\ input_queue' = input_queue
             /\ output_queue' = output_queue]_vars
    /\ [][\A t \in ThreadIds :
             (threads[t].pc = "get" /\ threads'[t].pc = "iter") =>
                 /\ threads'[t].frame = Head(input_queue)
                 /\ threads'[t].idx = 1]_vars
    /\ [][done' # done => done'.id > done.id]_vars

\* C31 witness: the first frame was lost to a raising processor, and the
\* same worker has processed the second frame and put it on output_queue
C31_Witness ==
    /\ Len(threads) = 1
    /\ captured = 2
    /\ dropped = [in |-> 0, out |-> 0]
    /\ input_queue = << >>
    /\ Len(output_queue) = 1
    /\ output_queue[1].id = 2
    /\ done.id = 2
    /\ ~done.raised
    /\ done.applied # << >>
    /\ done.out = "put"

\* C32: a worker thread that is alive while is_running is false has ended
\* some time later, unless start() has set is_running again
C32_WorkerObservesCancellation ==
    \A t \in 1..MaxThreads :
        (t \in ThreadIds /\ ~is_running /\ threads[t].pc # "dead")
           ~> ((t \in ThreadIds /\ threads[t].pc = "dead") \/ is_running)

\* C32 witness: stop() has returned from a join that found the worker
\* ended, and the worker never had a frame to take
C32_Witness ==
    /\ lastCall = "stopped"
    /\ ~is_running
    /\ captured = 0
    /\ Len(threads) = 1
    /\ threads[1].pc = "dead"

\* C35: the frames in the pipeline are pairwise different captured frames;
\* a frame enters the pipeline only by being captured; and the frame the
\* playback callback delivers was in the pipeline and is in it no longer, so
\* it is not delivered again
C35_NoFrameDuplicated ==
    /\ [](/\ Cardinality(PipelineIds) = Len(InPipeline)
          /\ \A id \in PipelineIds : id \in 1..captured)
    /\ [][/\ PipelineIds' \subseteq PipelineIds \cup ((captured + 1)..captured')
          /\ captured' \in {captured, captured + 1}
          /\ lastDelivered' # lastDelivered
                => /\ lastDelivered'.id \in PipelineIds
                   /\ lastDelivered'.id \notin PipelineIds'
                   /\ lastDelivered'.id # lastDelivered.id]_vars

\* C35 witness: of the captured frames one was delivered, one is in a
\* worker's hands and one waits on a queue
C35_Witness ==
    /\ captured = MaxFrames
    /\ lastDelivered.id \in 1..captured
    /\ lastDelivered.id \notin PipelineIds
    /\ HeldFrames(Len(threads)) # << >>
    /\ Cardinality(PipelineIds) >= 2

\* C39: after a start() that failed the engine is not running and no input
\* stream is open, and after a start() that succeeded exactly one input
\* stream is open
C39_FailedStartLeavesNothing ==
    /\ lastCall = "start_failed" => (~is_running /\ openIn = 0)
    /\ lastCall = "started" => openIn = 1

\* C29: a frame the worker puts on output_queue has as many samples as the
\* frame it took from input_queue, whatever the processors return
C29_SampleCountPreserved ==
    done.out = "put" => Len(done.data) = Len(inLog[done.id])

C13_DeviceFailureMockLoop ==
    \A t \in ApThreadIds :
        (apThreads[t].pc = "mock" /\ ~stopCalled) => ap_running

\* C26: the resolver returns a value on every host, and on a host without
\* an input device or without an output device (or whose enumeration
\* raises) what it returns makes the engine take the mock loop at line 151
C26_ResolverSentinel ==
    \A t \in ApThreadIds :
        (/\ apThreads[t].pc # "resolve"
         /\ \/ InputDevices(apThreads[t].host) = {}
            \/ OutputDevices(apThreads[t].host) = {})
           => \/ ~Truthy(apThreads[t].input_device)
              \/ ~Truthy(apThreads[t].output_device)

\* C27: on a host whose device list has a virtual-cable device with output
\* channels, the output device resolved is that device; the input device
\* resolved is the default input device when that is valid
C27_VirtualOutputPreferred ==
    \A t \in ApThreadIds :
        apThreads[t].pc # "resolve" =>
           LET h == apThreads[t].host
           IN  /\ VirtualOutputDevices(h) # {}
                     => \E i \in VirtualOutputDevices(h) :
                            apThreads[t].output_device = h.devices[i].name
               /\ QueryOk(h, h.default[1])
                     => apThreads[t].input_device = h.devices[h.default[1] + 1].name

\* C28: the running flag of AudioProcessor goes from true to false only in
\* a stop() call
C28_OnlyStopEndsSession ==
    [][(ap_running /\ ~ap_running') => ApStop]_vars

(***************************************************************************)
(* Claims about the utterance segmenter                                    *)
(***************************************************************************)
\* C4: every run of voice-active chunks followed by SilenceThreshold
\* consecutive silent chunks is finalized exactly once: the buffers handed to
\* the collaborator are, one for one and in order, the concatenations of the
\* voice-active chunks fed since the previous finalization (no silent chunk
\* among them), and each has one entry in the translations log.
C4_OneUtterancePerBurst ==
    /\ collabCalls = dueUtterances
    /\ Len(context.translations) = Len(dueUtterances)

\* C4 witness: two utterances have been finalized, the first made of the
\* chunks <<1, 2>> and <<2>>, the second on the call just made
C4_Witness ==
    /\ Len(collabCalls) = 2
    /\ collabCalls[1] = << 1, 2, 2 >>
    /\ response.has_translation

\* C5: a call returns has_translation = true exactly when it delivers the
\* SilenceThreshold-th consecutive silent chunk after speech: not on an
\* earlier silent chunk and not on a later one.
C5_FinalizedOnTenthSilentChunk ==
    nCalls > 0 =>
        (response.has_translation <=> (silRun = SilenceThreshold /\ nSpeech > 0))

\* C5 witness: speech chunks, then 12 silent chunks, and one utterance
\* finalized
C5_Witness ==
    /\ nSpeech = MaxSpeech
    /\ nCalls = MaxSpeech + SilenceThreshold + 2
    /\ silRun = SilenceThreshold + 2
    /\ Len(collabCalls) = 1
    /\ Len(context.translations) = 1

\* C6: while the stream holds no run of SilenceThreshold consecutive silent
\* chunks nothing is finalized, and a voice-active chunk resets the
\* consecutive-silence count.
C6_NoLongSilenceNoUtterance ==
    /\ longestRun < SilenceThreshold =>
           /\ ~response.has_translation
           /\ context.translations = << >>
           /\ collabCalls = << >>
    /\ (nCalls > 0 /\ silRun = 0) => context.silence_frames = 0

\* C6 witness: a full-length stream with speech and silence runs of up to
\* SilenceThreshold - 1 chunks, the utterance still open
C6_Witness ==
    /\ nCalls = MaxCalls
    /\ nSpeech = MaxSpeech
    /\ longestRun = SilenceThreshold - 1
    /\ context.is_speaking
    /\ Len(context.current_utterance) >= MaxSpeech

\* C21: when the collaborator returns an error for a finalized utterance, the
\* result is not appended to the translations log and the response of that
\* call carries the error
C21_FailedUtteranceDropped ==
    [][\A chunk \in Chunks :
          Feed(chunk, "error")
             => /\ context'.translations = context.translations
                /\ response'.translation = "error"]_vars

\* C22: a finalization whose collaborator result is an error leaves the
\* context as a successful one does but for the stored result (Idle, empty
\* utterance buffer), and the utterance finalized after it is the speech fed
\* since, ended by SilenceThreshold silent chunks
C22_FailureLeavesSegmenterIntact ==
    /\ [][\A chunk \in Chunks :
             Feed(chunk, "error")
                => /\ ~context'.is_speaking
                   /\ context'.current_utterance = << >>
                   /\ [context' EXCEPT !.last_translation = "None",
                                       !.translations = << >>]
                      = [real_time_translate(chunk, context, "translation").context
                            EXCEPT !.last_translation = "None",
                                   !.translations = << >>]]_vars
    /\ [](\A i \in 2..Len(collabCalls) :
             context.translations[i - 1] = "error"
                => /\ i <= Len(dueUtterances)
                   /\ collabCalls[i] = dueUtterances[i])

\* C22 witness: the first utterance failed, and the second, made of the
\* chunks fed after it, has been translated
C22_Witness ==
    /\ context.translations = << "error", "translation" >>
    /\ collabCalls = << << 2 >>, << 1, 2 >> >>
    /\ ~context.is_speaking

\* C23: the call that finalizes an utterance (the one that delivers the
\* SilenceThreshold-th silent chunk after speech) returns has_translation =
\* true, empties the utterance buffer, clears is_speaking and appends one
\* entry to the translations log; every other call returns has_translation =
\* false and leaves the log as it is
C23_FinalizationEffects ==
    [][nCalls' # nCalls =>
          IF dueUtterances' # dueUtterances
            THEN /\ response'.has_translation
                 /\ context'.current_utterance = << >>
                 /\ ~context'.is_speaking
                 /\ Len(context'.translations) = Len(context.translations) + 1
            ELSE /\ ~response'.has_translation
                 /\ context'.translations = context.translations]_vars

\* C23 witness: one voice-active chunk and SilenceThreshold silent chunks,
\* the last call finalizing
C23_Witness ==
    /\ nCalls = SilenceThreshold + 1
    /\ nSpeech = 1
    /\ response.has_translation
    /\ context.translations = << "translation" >>
    /\ context.current_utterance = << >>
    /\ ~context.is_speaking

\* C24: the context returned by a finalizing call has its silence-frame
\* counter at 0
C24_CounterResetOnFinalization ==
    response.has_translation => context.silence_frames = 0

\* C25: a silent chunk received while is_speaking is false leaves
\* is_speaking false, the utterance buffer empty and the translations log
\* unchanged, calls no collaborator and returns has_translation = false
C25_IdleSilenceNoOp ==
    [][(/\ nCalls' # nCalls
        /\ nSpeech' = nSpeech
        /\ ~context.is_speaking)
          => /\ ~context'.is_speaking
             /\ context'.current_utterance = << >>
             /\ context'.translations = context.translations
             /\ collabCalls' = collabCalls
             /\ ~response'.has_translation]_vars

\* C25 witness: after a finalized utterance, more silent chunks than
\* SilenceThreshold have arrived in Idle
C25_Witness ==
    /\ nCalls = MaxCalls
    /\ Len(context.translations) = 1
    /\ ~context.is_speaking
    /\ silRun > 2 * SilenceThreshold
    /\ context.silence_frames = silRun

====
